---------------------------- MODULE Spec2Model ----------------------------
(***************************************************************************)
(* A model of the base-N codec (base/base64), the null name codec          *)
(* (fs/NullNameIO) and the per-file locking of fs/FileNode of encfs.       *)
(*                                                                         *)
(* Each unit has its own specification (SpecBase, SpecInline, ...) over    *)
(* its own group of variables; the variables of the other units stay at    *)
(* their idle values.                                                      *)
(***************************************************************************)
EXTENDS Integers, Sequences, FiniteSets, TLC

VARIABLES
    \* changeBase2 called twice (there and back)
    bPc, bSrc, bSrc2Pow, bDst2Pow, bDstLen, bDst, bBackLen, bBack,
    \* changeBase2Inline, one step at a time
    iPc,        \* where the innermost call stands
    iIn,        \* the input as it was given (never changed)
    iSrc2Pow, iDst2Pow, iFlag,
    iBuf,       \* the memory at src[0 ..]
    iSrc,       \* index of *src
    iSrcLen,    \* input bytes left
    iWork, iWorkBits,
    iOutLoc,    \* index of *outLoc
    iStack,     \* the callers waiting to store: <<outLoc, outVal>> each
    iWritten,   \* the indices stored to so far
    iCalls,     \* calls of the recursive function so far
    \* B64StandardDecode
    dPc, dKind, dPlain, dIn, dRet, dOut,
    \* B64ToAscii, AsciiToB64, B32ToAscii, AsciiToB32 on one buffer
    aPc, aKind, aVals, aBuf,
    \* NullNameIO
    nPc, nOp, nName, nIvIn, nIv, nOut, nRet,
    \* FileNode: threads, the mutex of each node, the FileIO calls made
    fPc, fOp, fNode, fLeft, fOpId, mutex, ioLog, opCount

baseVars == <<bPc, bSrc, bSrc2Pow, bDst2Pow, bDstLen, bDst, bBackLen, bBack>>

inlVars == <<iPc, iIn, iSrc2Pow, iDst2Pow, iFlag, iBuf, iSrc, iSrcLen, iWork,
             iWorkBits, iOutLoc, iStack, iWritten, iCalls>>

b64Vars == <<dPc, dKind, dPlain, dIn, dRet, dOut>>

ascVars == <<aPc, aKind, aVals, aBuf>>

nullVars == <<nPc, nOp, nName, nIvIn, nIv, nOut, nRet>>

fileVars == <<fPc, fOp, fNode, fLeft, fOpId, mutex, ioLog, opCount>>

vars == <<baseVars, inlVars, b64Vars, ascVars, nullVars, fileVars>>

\* what the steps of one unit leave alone
exceptBase == <<inlVars, b64Vars, ascVars, nullVars, fileVars>>
exceptInline == <<baseVars, b64Vars, ascVars, nullVars, fileVars>>
exceptB64 == <<baseVars, inlVars, ascVars, nullVars, fileVars>>
exceptAscii == <<baseVars, inlVars, b64Vars, nullVars, fileVars>>
exceptNull == <<baseVars, inlVars, b64Vars, ascVars, fileVars>>
exceptFile == <<baseVars, inlVars, b64Vars, ascVars, nullVars>>

\* the idle values of each unit's variables
IdleBase ==
    /\ bPc = "idle" /\ bSrc = <<>> /\ bSrc2Pow = 1 /\ bDst2Pow = 1
    /\ bDstLen = 0 /\ bDst = <<>> /\ bBackLen = 0 /\ bBack = <<>>

IdleInline ==
    /\ iPc = "idle" /\ iIn = <<>> /\ iSrc2Pow = 1 /\ iDst2Pow = 1
    /\ iFlag = FALSE /\ iBuf = <<>> /\ iSrc = 0 /\ iSrcLen = 0
    /\ iWork = 0 /\ iWorkBits = 0 /\ iOutLoc = 0 /\ iStack = <<>>
    /\ iWritten = {} /\ iCalls = 0

IdleB64 ==
    /\ dPc = "idle" /\ dKind = "none" /\ dPlain = <<>> /\ dIn = <<>>
    /\ dRet = FALSE /\ dOut = <<>>

IdleAscii ==
    /\ aPc = "idle" /\ aKind = "none" /\ aVals = <<>> /\ aBuf = <<>>

IdleNull ==
    /\ nPc = "idle" /\ nOp = "none" /\ nName = <<>> /\ nIvIn = <<>> /\ nIv = <<>>
    /\ nOut = <<>> /\ nRet = 0

IdleFile ==
    /\ fPc = <<>> /\ fOp = <<>> /\ fNode = <<>> /\ fLeft = <<>> /\ fOpId = <<>>
    /\ mutex = <<>> /\ ioLog = <<>> /\ opCount = 0

----------------------------------------------------------------------------
(* Bounds of the model *)

\* longest input array given to the base conversions
MaxLen == 3

(* Machine arithmetic *)

Pow2(n) == 2 ^ n

\* x >> n and x << n on non-negative values (no width is reached: the work
\* buffer of the conversions holds at most 15 bits, the decoder's at most 25)
Shr(x, n) == x \div Pow2(n)
Shl(x, n) == x * Pow2(n)

RECURSIVE BitAnd(_, _)
BitAnd(x, y) ==
    IF x = 0 \/ y = 0 THEN 0
    ELSE (x % 2) * (y % 2) + 2 * BitAnd(x \div 2, y \div 2)

RECURSIVE BitOr(_, _)
BitOr(x, y) ==
    IF x = 0 THEN y
    ELSE IF y = 0 THEN x
    ELSE (IF x % 2 = 1 \/ y % 2 = 1 THEN 1 ELSE 0) + 2 * BitOr(x \div 2, y \div 2)

\* a value stored into a byte
ToByte(x) == x % 256

Pows == 1 .. 8

\* the a-bit symbols the inputs are drawn from: all-zero, all-one and two
\* patterns that are not symmetric in their bits
Symbols(a) == {0, Pow2(a) - 1, 45 % Pow2(a), 166 % Pow2(a)}

RECURSIVE SeqsUpTo(_, _)
SeqsUpTo(S, n) ==
    IF n = 0 THEN {<<>>}
    ELSE LET shorter == SeqsUpTo(S, n - 1)
         IN  shorter \cup {Append(s, v) : s \in {t \in shorter : Len(t) = n - 1}, v \in S}

Take(s, n) == SubSeq(s, 1, n)

----------------------------------------------------------------------------
(* changeBase2: the output array is the sequence of values stored through  *)
(* dst, in order from dst[0].                                              *)

\* mask = (1 << dst2Pow) - 1
Mask(dst2Pow) == Shl(1, dst2Pow) - 1

\* the inner loop: while(workBits >= dst2Pow) { *dst++ = work & mask; ... }
RECURSIVE Drain(_, _, _, _)
Drain(work, workBits, out, dst2Pow) ==
    IF workBits >= dst2Pow
    THEN Drain(Shr(work, dst2Pow), workBits - dst2Pow,
               Append(out, ToByte(BitAnd(work, Mask(dst2Pow)))), dst2Pow)
    ELSE [work |-> work, workBits |-> workBits, out |-> out]

\* the outer loop: while(src != end), from input position i (1-based)
RECURSIVE Feed(_, _, _, _, _, _, _)
Feed(src, i, src2Pow, dst2Pow, work, workBits, out) ==
    IF i > Len(src)
    THEN [work |-> work, workBits |-> workBits, out |-> out]
    ELSE LET w  == BitOr(work, Shl(src[i], workBits))
             wb == workBits + src2Pow
             dr == Drain(w, wb, out, dst2Pow)
         IN  Feed(src, i + 1, src2Pow, dst2Pow, dr.work, dr.workBits, dr.out)

\* changeBase2 without the trailing partial value
changeBase2_dropPartial(src, src2Pow, dstLen, dst2Pow) ==
    Feed(src, 1, src2Pow, dst2Pow, 0, 0, <<>>).out

\* changeBase2 with the room test off by one: (dst - origDst) <= dstLen
changeBase2_offByOne(src, src2Pow, dstLen, dst2Pow) ==
    LET r == Feed(src, 1, src2Pow, dst2Pow, 0, 0, <<>>)
    IN  IF r.workBits # 0 /\ Len(r.out) <= dstLen
        THEN Append(r.out, ToByte(BitAnd(r.work, Mask(dst2Pow))))
        ELSE r.out

changeBase2(src, src2Pow, dstLen, dst2Pow) ==
    LET r == Feed(src, 1, src2Pow, dst2Pow, 0, 0, <<>>)
    IN  IF r.workBits # 0 /\ Len(r.out) < dstLen
        THEN Append(r.out, ToByte(BitAnd(r.work, Mask(dst2Pow))))
        ELSE r.out

\* number of complete / of all dst-symbols in n src-symbols
Whole(n, a, b) == (n * a) \div b
Needed(n, a, b) == (n * a + b - 1) \div b

\* the dstLen given: from one less than the complete symbols to room to
\* spare after the partial one
DstLens(n, a, b) == {x \in Whole(n, a, b) - 1 .. Whole(n, a, b) + 2 : x >= 0}

InitBase ==
    /\ IdleInline /\ IdleB64 /\ IdleAscii /\ IdleNull /\ IdleFile
    /\ bPc = "start"
    /\ bSrc2Pow \in Pows
    /\ bDst2Pow \in Pows
    /\ bSrc \in SeqsUpTo(Symbols(bSrc2Pow), MaxLen)
    /\ bDstLen \in DstLens(Len(bSrc), bSrc2Pow, bDst2Pow)
    /\ bDst = <<>>
    /\ bBackLen = 0
    /\ bBack = <<>>

\* changeBase2(src, srcLen, src2Pow, dst, dstLen, dst2Pow)
Convert ==
    /\ bPc = "start"
    /\ bDst' = changeBase2(bSrc, bSrc2Pow, bDstLen, bDst2Pow)
    /\ bPc' = "converted"
    /\ UNCHANGED <<bSrc, bSrc2Pow, bDst2Pow, bDstLen, bBackLen, bBack>>
    /\ UNCHANGED exceptBase

\* the result converted back, into an array large enough
ConvertBack ==
    /\ bPc = "converted"
    /\ \E extra \in 0 .. 1 :
          bBackLen' = Needed(Len(bDst), bDst2Pow, bSrc2Pow) + extra
    /\ bBack' = changeBase2(bDst, bDst2Pow, bBackLen', bSrc2Pow)
    /\ bPc' = "restored"
    /\ UNCHANGED <<bSrc, bSrc2Pow, bDst2Pow, bDstLen, bDst>>
    /\ UNCHANGED exceptBase

NextBase == Convert \/ ConvertBack

SpecBase == InitBase /\ [][NextBase]_vars

----------------------------------------------------------------------------
(* changeBase2Inline. The buffer is the memory from src[0] on, large       *)
(* enough for the output ("the output is assumed to be large enough");     *)
(* the cells past the input hold a filler that is never read.              *)

\* longest input array given to changeBase2Inline
MaxInline == 3

\* what a cell that was never stored to holds: no byte value
Filler == 255 + 1

\* cells of the buffer: room for every output of the longest input
Cap == MaxInline * 8 + 1

\* buf[i], 0-based
Cell(buf, i) == buf[i + 1]
Store(buf, i, v) == [buf EXCEPT ![i + 1] = ToByte(v)]

InitInline ==
    /\ IdleBase /\ IdleB64 /\ IdleAscii /\ IdleNull /\ IdleFile
    /\ iPc = "call"
    /\ iSrc2Pow \in Pows
    /\ iDst2Pow \in Pows
    /\ iFlag \in BOOLEAN
    /\ iIn \in SeqsUpTo(Symbols(iSrc2Pow), MaxInline)
    /\ iBuf = [k \in 1 .. Cap |-> IF k <= Len(iIn) THEN iIn[k] ELSE Filler]
    /\ iSrc = 0
    /\ iSrcLen = Len(iIn)
    /\ iWork = 0
    /\ iWorkBits = 0
    /\ iOutLoc = 0
    /\ iStack = <<>>
    /\ iWritten = {}
    /\ iCalls = 0

\* the public changeBase2Inline: calls the recursive one with work = 0,
\* workBits = 0, outLoc = 0, which makes outLoc = src there
Enter ==
    /\ iPc = "call"
    /\ iPc' = "loop"
    /\ iCalls' = 1
    /\ iOutLoc' = iSrc
    /\ UNCHANGED <<iIn, iSrc2Pow, iDst2Pow, iFlag, iBuf, iSrc, iSrcLen, iWork,
                   iWorkBits, iStack, iWritten>>
    /\ UNCHANGED exceptInline

\* one turn of while(srcLen && workBits < dst2Pow)
Read ==
    /\ iPc = "loop"
    /\ iSrcLen # 0 /\ iWorkBits < iDst2Pow
    /\ iWork' = BitOr(iWork, Shl(Cell(iBuf, iSrc), iWorkBits))
    /\ iSrc' = iSrc + 1
    /\ iWorkBits' = iWorkBits + iSrc2Pow
    /\ iSrcLen' = iSrcLen - 1
    /\ UNCHANGED <<iPc, iIn, iSrc2Pow, iDst2Pow, iFlag, iBuf, iOutLoc, iStack,
                   iWritten, iCalls>>
    /\ UNCHANGED exceptInline

\* EmitRecurse with the store made before the recursive call instead of
\* after it
EmitRecurse_storeFirst ==
    /\ iPc = "loop"
    /\ ~(iSrcLen # 0 /\ iWorkBits < iDst2Pow)
    /\ iSrcLen # 0
    /\ iBuf' = Store(iBuf, iOutLoc, BitAnd(iWork, Mask(iDst2Pow)))
    /\ iWritten' = iWritten \cup {iOutLoc}
    /\ iStack' = Append(iStack, <<iOutLoc, BitAnd(iWork, Mask(iDst2Pow))>>)
    /\ iWork' = Shr(iWork, iDst2Pow)
    /\ iWorkBits' = iWorkBits - iDst2Pow
    /\ iOutLoc' = iOutLoc + 1
    /\ iCalls' = iCalls + 1
    /\ UNCHANGED <<iPc, iIn, iSrc2Pow, iDst2Pow, iFlag, iSrc, iSrcLen>>
    /\ UNCHANGED exceptInline

\* outVal taken and, more input left, the recursive call; the caller's
\* *outLoc = outVal waits on the stack
EmitRecurse ==
    /\ iPc = "loop"
    /\ ~(iSrcLen # 0 /\ iWorkBits < iDst2Pow)
    /\ iSrcLen # 0
    /\ iStack' = Append(iStack, <<iOutLoc, BitAnd(iWork, Mask(iDst2Pow))>>)
    /\ iWork' = Shr(iWork, iDst2Pow)
    /\ iWorkBits' = iWorkBits - iDst2Pow
    /\ iOutLoc' = iOutLoc + 1
    /\ iCalls' = iCalls + 1
    /\ UNCHANGED <<iPc, iIn, iSrc2Pow, iDst2Pow, iFlag, iBuf, iSrc, iSrcLen,
                   iWritten>>
    /\ UNCHANGED exceptInline

\* outVal taken and, no input left, stored at once: *outLoc++ = outVal
EmitLast ==
    /\ iPc = "loop"
    /\ ~(iSrcLen # 0 /\ iWorkBits < iDst2Pow)
    /\ iSrcLen = 0
    /\ iBuf' = Store(iBuf, iOutLoc, BitAnd(iWork, Mask(iDst2Pow)))
    /\ iWritten' = iWritten \cup {iOutLoc}
    /\ iOutLoc' = iOutLoc + 1
    /\ iWork' = Shr(iWork, iDst2Pow)
    /\ iWorkBits' = iWorkBits - iDst2Pow
    /\ iPc' = "tail"
    /\ UNCHANGED <<iIn, iSrc2Pow, iDst2Pow, iFlag, iSrc, iSrcLen, iStack, iCalls>>
    /\ UNCHANGED exceptInline

\* one turn of if(outputPartialLastByte) while(workBits > 0)
TailStore ==
    /\ iPc = "tail"
    /\ iFlag /\ iWorkBits > 0
    /\ iBuf' = Store(iBuf, iOutLoc, BitAnd(iWork, Mask(iDst2Pow)))
    /\ iWritten' = iWritten \cup {iOutLoc}
    /\ iOutLoc' = iOutLoc + 1
    /\ iWork' = Shr(iWork, iDst2Pow)
    /\ iWorkBits' = iWorkBits - iDst2Pow
    /\ UNCHANGED <<iPc, iIn, iSrc2Pow, iDst2Pow, iFlag, iSrc, iSrcLen, iStack,
                   iCalls>>
    /\ UNCHANGED exceptInline

\* the innermost call returns
TailEnd ==
    /\ iPc = "tail"
    /\ ~(iFlag /\ iWorkBits > 0)
    /\ iPc' = "return"
    /\ UNCHANGED <<iIn, iSrc2Pow, iDst2Pow, iFlag, iBuf, iSrc, iSrcLen, iWork,
                   iWorkBits, iOutLoc, iStack, iWritten, iCalls>>
    /\ UNCHANGED exceptInline

\* back in a caller: *outLoc = outVal, and it returns in turn
Unwind ==
    /\ iPc = "return"
    /\ iStack # <<>>
    /\ LET top == iStack[Len(iStack)]
       IN  /\ iBuf' = Store(iBuf, top[1], top[2])
           /\ iWritten' = iWritten \cup {top[1]}
    /\ iStack' = SubSeq(iStack, 1, Len(iStack) - 1)
    /\ UNCHANGED <<iPc, iIn, iSrc2Pow, iDst2Pow, iFlag, iSrc, iSrcLen, iWork,
                   iWorkBits, iOutLoc, iCalls>>
    /\ UNCHANGED exceptInline

\* the outermost call has returned
Finish ==
    /\ iPc = "return"
    /\ iStack = <<>>
    /\ iPc' = "done"
    /\ UNCHANGED <<iIn, iSrc2Pow, iDst2Pow, iFlag, iBuf, iSrc, iSrcLen, iWork,
                   iWorkBits, iOutLoc, iStack, iWritten, iCalls>>
    /\ UNCHANGED exceptInline

NextInline ==
    Enter \/ Read \/ EmitRecurse \/ EmitLast \/ TailStore \/ TailEnd \/ Unwind \/ Finish

SpecInline == InitInline /\ [][NextInline]_vars

----------------------------------------------------------------------------
(* The input read as one bit stream, least significant bit first: symbol i *)
(* (0-based) occupies bits [i*a, (i+1)*a); past the end the stream is 0.   *)

StreamBit(src, a, j) ==
    IF j < Len(src) * a THEN (src[(j \div a) + 1] \div Pow2(j % a)) % 2 ELSE 0

RECURSIVE StreamBits(_, _, _, _)
\* the value of the w bits of the stream from bit j on
StreamBits(src, a, j, w) ==
    IF w = 0 THEN 0
    ELSE StreamBit(src, a, j) + 2 * StreamBits(src, a, j + 1, w - 1)

\* C1: round trip of changeBase2. After x (n symbols of a bits) has been
\* converted to b bits per symbol into an array large enough for the
\* trailing partial symbol, and the result converted back to a bits per
\* symbol, the first n symbols of the result are x.
C1_RoundTrip ==
    (/\ bPc = "restored"
     /\ bDstLen >= Needed(Len(bSrc), bSrc2Pow, bDst2Pow))
    => (/\ Len(bBack) >= Len(bSrc)
        /\ Take(bBack, Len(bSrc)) = bSrc)

\* a round trip through a trailing partial symbol, which brings back more
\* symbols than went in
C1_Witness ==
    /\ bPc = "restored"
    /\ bDstLen >= Needed(Len(bSrc), bSrc2Pow, bDst2Pow)
    /\ Len(bSrc) >= 2
    /\ (Len(bSrc) * bSrc2Pow) % bDst2Pow # 0
    /\ bSrc2Pow < bDst2Pow
    /\ \E i \in 1 .. Len(bSrc) : bSrc[i] # 0
    /\ Take(bBack, Len(bSrc)) = bSrc
    /\ Len(bBack) > Len(bSrc)

\* C5: changeBase2 keeps the bit order low to high. Output symbol k is bits
\* [k*b, (k+1)*b) of the input's bit stream for every k < floor(n*a/b); one
\* more symbol, holding the n*a mod b leftover bits zero-extended, is
\* written exactly when that remainder is not 0 and fewer than dstLen
\* symbols have been written.
C5_BitOrder ==
    bPc # "start" =>
        LET n  == Len(bSrc)
            fl == Whole(n, bSrc2Pow, bDst2Pow)
            partial == (n * bSrc2Pow) % bDst2Pow # 0 /\ fl < bDstLen
        IN  /\ Len(bDst) = IF partial THEN fl + 1 ELSE fl
            /\ \A k \in 1 .. Len(bDst) :
                  bDst[k] = StreamBits(bSrc, bSrc2Pow, (k - 1) * bDst2Pow, bDst2Pow)

\* symbols that straddle input bytes, a partial symbol written, and a run
\* in which the partial symbol found no room
C5_Witness ==
    /\ bPc = "converted"
    /\ bSrc2Pow = 8 /\ bDst2Pow = 6
    /\ Len(bSrc) = 2
    /\ bSrc[1] = 45 /\ bSrc[2] = 166
    /\ bDst = <<45, 24, 10>>

C5_WitnessNoRoom ==
    /\ bPc = "converted"
    /\ (Len(bSrc) * bSrc2Pow) % bDst2Pow # 0
    /\ bDstLen = Whole(Len(bSrc), bSrc2Pow, bDst2Pow)
    /\ Len(bDst) = bDstLen
    /\ bDstLen > 0

----------------------------------------------------------------------------
(* Claims about changeBase2Inline *)

\* the cells stored to are exactly the first cnt, and they hold seq
BufferHolds(seq) ==
    /\ iWritten = 0 .. Len(seq) - 1
    /\ \A k \in 1 .. Len(seq) : iBuf[k] = seq[k]

\* the first cnt symbols of b bits of the input's bit stream
RECURSIVE StreamSyms(_, _, _, _)
StreamSyms(src, a, b, cnt) ==
    IF cnt = 0 THEN <<>>
    ELSE Append(StreamSyms(src, a, b, cnt - 1), StreamBits(src, a, (cnt - 1) * b, b))

\* C2: changeBase2Inline with outputPartialLastByte set is the same
\* conversion as changeBase2: when it has returned, the buffer holds from
\* src[0] on exactly the symbols changeBase2 writes to an output array with
\* room for the trailing partial symbol, and no other cell was stored to.
C2_SameAsChangeBase2 ==
    (iPc = "done" /\ iFlag) =>
        BufferHolds(changeBase2(iIn, iSrc2Pow,
                                Needed(Len(iIn), iSrc2Pow, iDst2Pow), iDst2Pow))

\* the same for the inputs of at least one symbol
C2_NonEmptyInput ==
    (iPc = "done" /\ iFlag /\ Len(iIn) >= 1) =>
        BufferHolds(changeBase2(iIn, iSrc2Pow,
                                Needed(Len(iIn), iSrc2Pow, iDst2Pow), iDst2Pow))

\* C3: outputPartialLastByte decides only whether the partial trailing
\* symbol is written: with the flag clear the buffer receives exactly the
\* floor(n*a/b) complete symbols, with the flag set those and one more
\* symbol with the leftover bits when n*a is not a multiple of b.
C3_FlagOnlyPartial ==
    iPc = "done" =>
        LET bits == Len(iIn) * iSrc2Pow
            fl   == bits \div iDst2Pow
            cnt  == IF iFlag /\ bits % iDst2Pow # 0 THEN fl + 1 ELSE fl
        IN  BufferHolds(StreamSyms(iIn, iSrc2Pow, iDst2Pow, cnt))

\* what the flag does decide: with the flag clear exactly one symbol is
\* stored after the last input byte has been read, whatever is left in the
\* work buffer
C3_FlagClearStoresOneLast ==
    (iPc = "done" /\ ~iFlag) => Cardinality(iWritten) = iCalls

\* a variant of the run: it falls with every step
Measure ==
    CASE iPc = "call"   -> 2 * (iSrcLen * (iSrc2Pow + 1)) + 100
      [] iPc = "loop"   -> 2 * (iSrcLen * (iSrc2Pow + 1) + iWorkBits) + Len(iStack) + 40
      [] iPc = "tail"   -> (IF iWorkBits > 0 THEN iWorkBits ELSE 0) + Len(iStack) + 2
      [] iPc = "return" -> Len(iStack) + 1
      [] OTHER          -> 0

\* C10: in changeBase2Inline no input symbol is overwritten before it has
\* been read. Nothing is stored while input is left; every input cell not
\* yet read holds what was given; the outputs wait on the recursion stack,
\* one call each; and the run ends: it is never stuck before the outermost
\* call has returned, every step lowers a natural-number variant, and there
\* are at most floor(n*a/b) + 1 calls.
C10_ReadBeforeOverwrite ==
    /\ [](iWritten # {} => iSrcLen = 0)
    /\ [](\A i \in iSrc .. iSrc + iSrcLen - 1 : Cell(iBuf, i) = iIn[i + 1])
    /\ [](iSrc + iSrcLen = Len(iIn))
    /\ [](iPc \in {"loop", "tail"} => Len(iStack) = iCalls - 1)
    /\ [](iCalls <= Whole(Len(iIn), iSrc2Pow, iDst2Pow) + 1)
    /\ [](Measure \in Nat)
    /\ [](iPc # "done" => ENABLED NextInline)
    /\ [][Measure' < Measure]_vars

\* an output longer than its input, all of it stored after the last read
C10_Witness ==
    /\ iPc = "done"
    /\ iDst2Pow < iSrc2Pow
    /\ Len(iIn) = 2
    /\ iIn[1] # 0 /\ iIn[2] # iIn[1]
    /\ iCalls > 2
    /\ Cardinality(iWritten) > Len(iIn)

----------------------------------------------------------------------------
(* B64StandardDecode *)

WHITESPACE == 64
EQUALS == 65
INVALID == 66

\* the table d[], indexed from 0 ('\0') to 122 ('z')
d ==
    << 66,66,66,66,66,66,66,66,66,64,
       66,66,66,66,66,66,66,66,66,66,
       66,66,66,66,66,66,66,66,66,66,
       66,66,66,66,66,66,66,66,66,66,
       66,66,66,62,66,66,66,63,52,53,
       54,55,56,57,58,59,60,61,66,66,
       66,65,66,66,66, 0, 1, 2, 3, 4,
        5, 6, 7, 8, 9,10,11,12,13,14,
       15,16,17,18,19,20,21,22,23,24,
       25,66,66,66,66,66,66,26,27,28,
       29,30,31,32,33,34,35,36,37,38,
       39,40,41,42,43,44,45,46,47,48,
       49,50,51 >>

\* the while loop, from input position i (1-based) with the bits gathered
\* in buf; a return false leaves what was written so far
RECURSIVE DecodeLoop(_, _, _, _)
DecodeLoop(in, i, buf, out) ==
    IF i > Len(in) THEN [ret |-> TRUE, buf |-> buf, out |-> out]
    ELSE LET v == in[i]
         IN  IF v > 122 THEN [ret |-> FALSE, buf |-> buf, out |-> out]
             ELSE LET c == d[v + 1]
                  IN  CASE c = WHITESPACE -> DecodeLoop(in, i + 1, buf, out)
                        [] c = INVALID    -> [ret |-> FALSE, buf |-> buf, out |-> out]
                        [] c = EQUALS     -> DecodeLoop(in, Len(in) + 1, buf, out)
                        [] OTHER          ->
                            LET nb == BitOr(Shl(buf, 6), c)
                            IN  IF BitAnd(nb, 16777216) # 0
                                THEN DecodeLoop(in, i + 1, 1,
                                         out \o << ToByte(Shr(nb, 16)),
                                                   ToByte(Shr(nb, 8)),
                                                   ToByte(nb) >>)
                                ELSE DecodeLoop(in, i + 1, nb, out)

\* B64StandardDecode without the bytes of a trailing group of 2 or 3 symbols
B64StandardDecode_noTail(in) ==
    LET r == DecodeLoop(in, 1, 1, <<>>)
    IN  [ret |-> r.ret, out |-> r.out]

\* B64StandardDecode(out, in, inLen): the return value and the bytes
\* written through out
B64StandardDecode(in) ==
    LET r == DecodeLoop(in, 1, 1, <<>>)
    IN  IF ~r.ret THEN [ret |-> FALSE, out |-> r.out]
        ELSE IF BitAnd(r.buf, 262144) # 0
             THEN [ret |-> TRUE,
                   out |-> r.out \o <<ToByte(Shr(r.buf, 10)), ToByte(Shr(r.buf, 2))>>]
        ELSE IF BitAnd(r.buf, 4096) # 0
             THEN [ret |-> TRUE, out |-> Append(r.out, ToByte(Shr(r.buf, 4)))]
        ELSE [ret |-> TRUE, out |-> r.out]

\* longest raw input, longest blob encoded
MaxRaw == 3
MaxPlain == 4

\* bytes of the raw inputs: tab, line feed, carriage return, space, '+',
\* '-', '/', '=', 'A', 'z', '{', 0xff
RawBytes == {9, 10, 13, 32, 43, 45, 47, 61, 65, 122, 123, 255}

\* bytes of the blobs
PlainBytes == {0, 45, 166, 255}

\* the standard base-64 alphabet A-Z a-z 0-9 + /
StdChar(v) ==
    IF v < 26 THEN 65 + v
    ELSE IF v < 52 THEN 97 + (v - 26)
    ELSE IF v < 62 THEN 48 + (v - 52)
    ELSE IF v = 62 THEN 43 ELSE 47

\* the standard base-64 encoding of x (RFC 4648), with or without padding
RECURSIVE StdEncode(_, _)
StdEncode(x, pad) ==
    IF Len(x) = 0 THEN <<>>
    ELSE IF Len(x) = 1
         THEN << StdChar(x[1] \div 4), StdChar((x[1] % 4) * 16) >>
              \o (IF pad THEN <<61, 61>> ELSE <<>>)
    ELSE IF Len(x) = 2
         THEN << StdChar(x[1] \div 4),
                 StdChar((x[1] % 4) * 16 + x[2] \div 16),
                 StdChar((x[2] % 16) * 4) >>
              \o (IF pad THEN <<61>> ELSE <<>>)
    ELSE << StdChar(x[1] \div 4),
            StdChar((x[1] % 4) * 16 + x[2] \div 16),
            StdChar((x[2] % 16) * 4 + x[3] \div 64),
            StdChar(x[3] % 64) >>
         \o StdEncode(SubSeq(x, 4, Len(x)), pad)

InitB64 ==
    /\ IdleBase /\ IdleInline /\ IdleAscii /\ IdleNull /\ IdleFile
    /\ dRet = FALSE
    /\ dOut = <<>>
    /\ \/ /\ dKind = "raw"
          /\ dPc = "ready"
          /\ dPlain = <<>>
          /\ dIn \in SeqsUpTo(RawBytes, MaxRaw)
       \/ /\ dKind = "blob"
          /\ dPc = "plain"
          /\ dPlain \in SeqsUpTo(PlainBytes, MaxPlain)
          /\ dIn = <<>>

\* an external writer encodes the blob
EncodeBlob ==
    /\ dPc = "plain"
    /\ \E pad \in BOOLEAN : dIn' = StdEncode(dPlain, pad)
    /\ dPc' = "ready"
    /\ UNCHANGED <<dKind, dPlain, dRet, dOut>>
    /\ UNCHANGED exceptB64

Decode ==
    /\ dPc = "ready"
    /\ LET r == B64StandardDecode(dIn)
       IN  dRet' = r.ret /\ dOut' = r.out
    /\ dPc' = "done"
    /\ UNCHANGED <<dKind, dPlain, dIn>>
    /\ UNCHANGED exceptB64

NextB64 == EncodeBlob \/ Decode

SpecB64 == InitB64 /\ [][NextB64]_vars

(* Claims about B64StandardDecode *)

Whitespace == {32, 9, 13, 10}
StdAlphabet == {StdChar(v) : v \in 0 .. 63}

\* the input up to its first '=' (all of it when it has none)
RECURSIVE BeforeEquals(_)
BeforeEquals(in) ==
    IF in = <<>> \/ in[1] = 61 THEN <<>>
    ELSE <<in[1]>> \o BeforeEquals(Tail(in))

RECURSIVE Without(_, _)
Without(in, S) ==
    IF in = <<>> THEN <<>>
    ELSE (IF in[1] \in S THEN <<>> ELSE <<in[1]>>) \o Without(Tail(in), S)

\* C6: B64StandardDecode skips the whitespace bytes space, tab, carriage
\* return and line feed without changing its output, takes the first '=' as
\* the end of the data (it returns true and reads no further), and returns
\* false for any other byte outside the alphabet A-Z a-z 0-9 + /.
C6_WhitespaceEqualsInvalid ==
    dPc = "done" =>
        LET data == BeforeEquals(dIn)
        IN  IF \A k \in 1 .. Len(data) : data[k] \in StdAlphabet \cup Whitespace
            THEN /\ dRet = TRUE
                 /\ dOut = B64StandardDecode(Without(data, Whitespace)).out
            ELSE dRet = FALSE

\* the same with tab as the only whitespace byte
C6_TabOnly ==
    dPc = "done" =>
        LET data == BeforeEquals(dIn)
        IN  IF \A k \in 1 .. Len(data) : data[k] \in StdAlphabet \cup {9}
            THEN /\ dRet = TRUE
                 /\ dOut = B64StandardDecode(Without(data, {9})).out
            ELSE dRet = FALSE

\* C7: B64StandardDecode of the standard base-64 encoding of x, padded or
\* not, returns true and writes exactly the bytes of x.
C7_DecodesStandardEncoding ==
    (dPc = "done" /\ dKind = "blob") => (dRet = TRUE /\ dOut = dPlain)

\* a blob of one full group and a trailing group of two symbols, padded
C7_Witness ==
    /\ dPc = "done" /\ dKind = "blob"
    /\ Len(dPlain) = 4
    /\ dPlain[1] = 166 /\ dPlain[2] = 45 /\ dPlain[4] = 255
    /\ Len(dIn) = 8 /\ dIn[8] = 61
    /\ dOut = dPlain

\* a blob with a trailing group of three symbols, not padded
C7_WitnessThree ==
    /\ dPc = "done" /\ dKind = "blob"
    /\ Len(dPlain) = 2 /\ Len(dIn) = 3
    /\ dOut = dPlain /\ dPlain[1] # dPlain[2]

----------------------------------------------------------------------------
(* B64ToAscii, AsciiToB64, B32ToAscii, AsciiToB32: each rewrites the       *)
(* buffer it is given, byte by byte.                                       *)

\* ",-0123456789"
B642AsciiTable == << 44, 45, 48, 49, 50, 51, 52, 53, 54, 55, 56, 57 >>

\* 44 spaces, "01", 2 spaces, "23456789:;", 7 spaces
Ascii2B64Table ==
    << 32,32,32,32,32,32,32,32,32,32,32,32,32,32,32,32,
       32,32,32,32,32,32,32,32,32,32,32,32,32,32,32,32,
       32,32,32,32,32,32,32,32,32,32,32,32,48,49,32,32,
       50,51,52,53,54,55,56,57,58,59,32,32,32,32,32,32,
       32 >>

B64ToAsciiChar(v) ==
    LET ch == IF v > 11
              THEN (IF v > 37 THEN v + (97 - 38) ELSE v + (65 - 12))
              ELSE B642AsciiTable[v + 1]
    IN  ToByte(ch)

B64ToAscii(in) == [k \in 1 .. Len(in) |-> B64ToAsciiChar(in[k])]

\* byte ch: the arithmetic is modulo 256
AsciiToB64Char(c) ==
    IF c >= 65
    THEN (IF c >= 97 THEN ToByte(c + 38 - 97) ELSE ToByte(c + 12 - 65))
    ELSE ToByte(Ascii2B64Table[c + 1] - 48)

AsciiToB64(in) == [k \in 1 .. Len(in) |-> AsciiToB64Char(in[k])]

B32ToAsciiChar(v) ==
    ToByte(IF v >= 0 /\ v < 26 THEN v + 65 ELSE v + (50 - 26))

B32ToAscii(buf) == [k \in 1 .. Len(buf) |-> B32ToAsciiChar(buf[k])]

\* toupper and tolower of the C locale
ToUpper(c) == IF c \in 97 .. 122 THEN c - 32 ELSE c
ToLower(c) == IF c \in 65 .. 90 THEN c + 32 ELSE c

AsciiToB32Char(c) ==
    LET lch == ToUpper(c)
    IN  ToByte(IF lch >= 65 THEN lch - 65 ELSE lch + 26 - 50)

\* AsciiToB32 without the toupper
AsciiToB32_caseSensitive(in) ==
    [k \in 1 .. Len(in) |->
        ToByte(IF in[k] >= 65 THEN in[k] - 65 ELSE in[k] + 26 - 50)]

AsciiToB32(in) == [k \in 1 .. Len(in) |-> AsciiToB32Char(in[k])]

\* longest buffer given to the alphabet conversions
MaxAscii == 2

InitAscii ==
    /\ IdleBase /\ IdleInline /\ IdleB64 /\ IdleNull /\ IdleFile
    /\ aPc = "values"
    /\ \/ aKind = "b64" /\ aVals \in SeqsUpTo(0 .. 63, MaxAscii)
       \/ aKind = "b32" /\ aVals \in SeqsUpTo(0 .. 31, MaxAscii)
    /\ aBuf = aVals

CallB64ToAscii ==
    /\ aPc = "values" /\ aKind = "b64"
    /\ aBuf' = B64ToAscii(aBuf)
    /\ aPc' = "ascii"
    /\ UNCHANGED <<aKind, aVals>>
    /\ UNCHANGED exceptAscii

CallAsciiToB64 ==
    /\ aPc = "ascii" /\ aKind = "b64"
    /\ aBuf' = AsciiToB64(aBuf)
    /\ aPc' = "back"
    /\ UNCHANGED <<aKind, aVals>>
    /\ UNCHANGED exceptAscii

CallB32ToAscii ==
    /\ aPc = "values" /\ aKind = "b32"
    /\ aBuf' = B32ToAscii(aBuf)
    /\ aPc' = "ascii"
    /\ UNCHANGED <<aKind, aVals>>
    /\ UNCHANGED exceptAscii

\* a case-insensitive file system hands the name back in lower case
FoldCase ==
    /\ aPc = "ascii" /\ aKind = "b32"
    /\ aBuf' = [k \in 1 .. Len(aBuf) |-> ToLower(aBuf[k])]
    /\ aPc' = "folded"
    /\ UNCHANGED <<aKind, aVals>>
    /\ UNCHANGED exceptAscii

CallAsciiToB32 ==
    /\ aPc \in {"ascii", "folded"} /\ aKind = "b32"
    /\ aBuf' = AsciiToB32(aBuf)
    /\ aPc' = IF aPc = "folded" THEN "backFolded" ELSE "back"
    /\ UNCHANGED <<aKind, aVals>>
    /\ UNCHANGED exceptAscii

NextAscii ==
    CallB64ToAscii \/ CallAsciiToB64 \/ CallB32ToAscii \/ FoldCase \/ CallAsciiToB32

SpecAscii == InitAscii /\ [][NextAscii]_vars

(* Claims about the alphabets *)

\* ",-0123456789ABCDEFGHIJKLMNOPQRSTUVWXYZabcdefghijklmnopqrstuvwxyz"
NameAlphabet64 ==
    << 44,45,48,49,50,51,52,53,54,55,56,57,65,66,67,68,
       69,70,71,72,73,74,75,76,77,78,79,80,81,82,83,84,
       85,86,87,88,89,90,97,98,99,100,101,102,103,104,105,106,
       107,108,109,110,111,112,113,114,115,116,117,118,119,120,121,122 >>

\* "ABCDEFGHIJKLMNOPQRSTUVWXYZ234567"
NameAlphabet32 ==
    << 65,66,67,68,69,70,71,72,73,74,75,76,77,78,79,80,
       81,82,83,84,85,86,87,88,89,90,50,51,52,53,54,55 >>

\* C8: from_ascii inverts to_ascii over both name alphabets. B64ToAscii
\* maps each 6-bit value v to the v-th character of the base-64 name
\* alphabet, never '/' or '.', and AsciiToB64 maps it back to v; B32ToAscii
\* maps each 5-bit value v to the v-th character of A..Z2..7, and AsciiToB32
\* maps that character, and its lower-case form, back to v.
C8_AlphabetsInvert ==
    /\ (aPc = "ascii" /\ aKind = "b64") =>
          \A k \in 1 .. Len(aVals) :
              /\ aBuf[k] = NameAlphabet64[aVals[k] + 1]
              /\ aBuf[k] \notin {47, 46}
    /\ (aPc = "ascii" /\ aKind = "b32") =>
          \A k \in 1 .. Len(aVals) : aBuf[k] = NameAlphabet32[aVals[k] + 1]
    /\ aPc = "folded" =>
          \A k \in 1 .. Len(aVals) : aBuf[k] = ToLower(NameAlphabet32[aVals[k] + 1])
    /\ aPc \in {"back", "backFolded"} => aBuf = aVals
    /\ aPc # "idle" => Len(aBuf) = Len(aVals)

\* a base-32 name of a letter and a digit that came back in lower case
C8_Witness ==
    /\ aPc = "backFolded"
    /\ Len(aVals) = 2
    /\ aVals[1] = 25 /\ aVals[2] = 31
    /\ aBuf = aVals

\* a base-64 name through the table and through both letter ranges
C8_Witness64 ==
    /\ aPc = "back" /\ aKind = "b64"
    /\ Len(aVals) = 2
    /\ aVals[1] = 11 /\ aVals[2] = 63
    /\ aBuf = aVals

----------------------------------------------------------------------------
(* NullNameIO *)

maxEncodedNameLen(plaintextNameLen) == plaintextNameLen

maxDecodedNameLen(encodedNameLen) == encodedNameLen

\* memcpy(dst, src, length): the first length cells of dst are replaced
MemCpy(dst, src, length) ==
    [k \in 1 .. Len(dst) |-> IF k <= length THEN src[k] ELSE dst[k]]

\* encodeName with the copy one byte short
encodeName_short(plaintextName, length, iv, encodedName) ==
    [ret |-> length, iv |-> iv,
     out |-> MemCpy(encodedName, plaintextName, length - 1)]

\* encodeName(plaintextName, length, iv, encodedName): the value returned,
\* *iv and the output buffer afterwards
encodeName(plaintextName, length, iv, encodedName) ==
    [ret |-> length, iv |-> iv,
     out |-> MemCpy(encodedName, plaintextName, length)]

decodeName(encodedName, length, iv, plaintextName) ==
    [ret |-> length, iv |-> iv,
     out |-> MemCpy(plaintextName, encodedName, length)]

\* longest name
MaxName == 3

\* bytes of the names: '.', '/', 'A', 0xff
NameBytes == {46, 47, 65, 255}

\* values of the 64-bit IV accumulator, as four 16-bit words, low word
\* first: 0, 1, 2^64 - 1; and <<>> for no accumulator at all (iv = NULL)
IvValues == {<<0, 0, 0, 0>>, <<1, 0, 0, 0>>, <<65535, 65535, 65535, 65535>>, <<>>}

InitNull ==
    /\ IdleBase /\ IdleInline /\ IdleB64 /\ IdleAscii /\ IdleFile
    /\ nPc = "ready"
    /\ nOp = "none"
    /\ nName \in SeqsUpTo(NameBytes, MaxName)
    /\ nIvIn \in IvValues
    /\ nIv = nIvIn
    /\ nOut = [k \in 1 .. MaxName + 1 |-> Filler]
    /\ nRet = 0

CallEncodeName ==
    /\ nPc = "ready"
    /\ LET r == encodeName(nName, Len(nName), nIv, nOut)
       IN  nRet' = r.ret /\ nIv' = r.iv /\ nOut' = r.out
    /\ nOp' = "encodeName"
    /\ nPc' = "done"
    /\ UNCHANGED <<nName, nIvIn>>
    /\ UNCHANGED exceptNull

CallDecodeName ==
    /\ nPc = "ready"
    /\ LET r == decodeName(nName, Len(nName), nIv, nOut)
       IN  nRet' = r.ret /\ nIv' = r.iv /\ nOut' = r.out
    /\ nOp' = "decodeName"
    /\ nPc' = "done"
    /\ UNCHANGED <<nName, nIvIn>>
    /\ UNCHANGED exceptNull

CallMaxEncodedNameLen ==
    /\ nPc = "ready"
    /\ nRet' = maxEncodedNameLen(Len(nName))
    /\ nOp' = "maxEncodedNameLen"
    /\ nPc' = "done"
    /\ UNCHANGED <<nName, nIvIn, nIv, nOut>>
    /\ UNCHANGED exceptNull

CallMaxDecodedNameLen ==
    /\ nPc = "ready"
    /\ nRet' = maxDecodedNameLen(Len(nName))
    /\ nOp' = "maxDecodedNameLen"
    /\ nPc' = "done"
    /\ UNCHANGED <<nName, nIvIn, nIv, nOut>>
    /\ UNCHANGED exceptNull

NextNull ==
    CallEncodeName \/ CallDecodeName \/ CallMaxEncodedNameLen \/ CallMaxDecodedNameLen

SpecNull == InitNull /\ [][NextNull]_vars

\* C9: the null name codec is the identity. encodeName and decodeName write
\* to the output exactly the L bytes of the name, unchanged, and return L;
\* maxEncodedNameLen(L) and maxDecodedNameLen(L) return L; the IV
\* accumulator is left as it was.
C9_NullIsIdentity ==
    nPc = "done" =>
        /\ nRet = Len(nName)
        /\ nIv = nIvIn
        /\ nOp \in {"encodeName", "decodeName"} =>
              /\ Take(nOut, Len(nName)) = nName
              /\ \A k \in Len(nName) + 1 .. Len(nOut) : nOut[k] = Filler
        /\ nOp \in {"maxEncodedNameLen", "maxDecodedNameLen"} =>
              \A k \in 1 .. Len(nOut) : nOut[k] = Filler

\* a name with '/' and '.' encoded under the largest IV
C9_Witness ==
    /\ nPc = "done" /\ nOp = "encodeName"
    /\ nName = <<47, 46, 255>>
    /\ nIv = <<65535, 65535, 65535, 65535>>
    /\ nRet = 3
    /\ Take(nOut, 3) = nName

----------------------------------------------------------------------------
(* FileNode: read, write, truncate and sync under the node's mutex. The    *)
(* header declares the operations and the mutex; what each operation does  *)
(* under it follows the specification of the file layer.                   *)

Threads == {"t1", "t2"}
Nodes == {"n1", "n2"}

\* the operations that take the node's mutex
FileOps == {"read", "write", "truncate", "sync"}

\* operations begun in one run
MaxOps == 3

\* calls down to the FileIO level made by one operation: a write reads and
\* writes back a partial block, a truncate rewrites the last block and cuts
\* the backing file
IoCalls(op) == IF op \in {"write", "truncate"} THEN 2 ELSE 1

InitFile ==
    /\ IdleBase /\ IdleInline /\ IdleB64 /\ IdleAscii /\ IdleNull
    /\ fPc = [t \in Threads |-> "idle"]
    /\ fOp = [t \in Threads |-> "none"]
    /\ fNode = [t \in Threads |-> "none"]
    /\ fLeft = [t \in Threads |-> 0]
    /\ fOpId = [t \in Threads |-> 0]
    /\ mutex = [n \in Nodes |-> "free"]
    /\ ioLog = [n \in Nodes |-> <<>>]
    /\ opCount = 0

\* thread t enters operation op of node n
Call(t, op, n) ==
    /\ fPc[t] = "idle"
    /\ opCount < MaxOps
    /\ opCount' = opCount + 1
    /\ fPc' = [fPc EXCEPT ![t] = "entered"]
    /\ fOp' = [fOp EXCEPT ![t] = op]
    /\ fNode' = [fNode EXCEPT ![t] = n]
    /\ fOpId' = [fOpId EXCEPT ![t] = opCount + 1]
    /\ fLeft' = [fLeft EXCEPT ![t] = IoCalls(op)]
    /\ UNCHANGED <<mutex, ioLog>>
    /\ UNCHANGED exceptFile

\* Lock without the wait for the mutex to be free
Lock_noWait(t) ==
    /\ fPc[t] = "entered"
    /\ mutex' = [mutex EXCEPT ![fNode[t]] = t]
    /\ fPc' = [fPc EXCEPT ![t] = "inside"]
    /\ UNCHANGED <<fOp, fNode, fLeft, fOpId, ioLog, opCount>>
    /\ UNCHANGED exceptFile

\* Lock _lock( mutex ): the first statement of the operation
Lock(t) ==
    /\ fPc[t] = "entered"
    /\ mutex[fNode[t]] = "free"
    /\ mutex' = [mutex EXCEPT ![fNode[t]] = t]
    /\ fPc' = [fPc EXCEPT ![t] = "inside"]
    /\ UNCHANGED <<fOp, fNode, fLeft, fOpId, ioLog, opCount>>
    /\ UNCHANGED exceptFile

\* one call down to the FileIO level
FileIOCall(t) ==
    /\ fPc[t] = "inside"
    /\ fLeft[t] > 0
    /\ ioLog' = [ioLog EXCEPT ![fNode[t]] = Append(@, fOpId[t])]
    /\ fLeft' = [fLeft EXCEPT ![t] = @ - 1]
    /\ UNCHANGED <<fPc, fOp, fNode, fOpId, mutex, opCount>>
    /\ UNCHANGED exceptFile

\* the operation returns, with all its FileIO calls made or, on an error,
\* before; the lock goes with the scope
Return(t) ==
    /\ fPc[t] = "inside"
    /\ mutex' = [mutex EXCEPT ![fNode[t]] = IF @ = t THEN "free" ELSE @]
    /\ fPc' = [fPc EXCEPT ![t] = "idle"]
    /\ fLeft' = [fLeft EXCEPT ![t] = 0]
    /\ fOp' = [fOp EXCEPT ![t] = "none"]
    /\ fNode' = [fNode EXCEPT ![t] = "none"]
    /\ fOpId' = [fOpId EXCEPT ![t] = 0]
    /\ UNCHANGED <<ioLog, opCount>>
    /\ UNCHANGED exceptFile

NextFile ==
    \E t \in Threads :
        \/ \E op \in FileOps, n \in Nodes : Call(t, op, n)
        \/ Lock(t)
        \/ FileIOCall(t)
        \/ Return(t)

SpecFile == InitFile /\ [][NextFile]_vars

\* the FileIO calls of each operation stand together in the node's log
Contiguous(log) ==
    \A i, j, k \in 1 .. Len(log) :
        (i < j /\ j < k /\ log[i] = log[k]) => log[j] = log[i]

\* C4: on one FileNode, read, write, truncate and sync hold the node's
\* mutex from entry to return: at most one of them is in progress on a node,
\* the FileIO calls of one operation are never interleaved with those of
\* another on the same node, and operations on different nodes do not block
\* each other (an operation can take its node's mutex exactly when that
\* mutex is free, whatever the other nodes' mutexes are).
C4_OneOperationPerNode ==
    /\ \A t \in Threads : fPc[t] = "inside" => mutex[fNode[t]] = t
    /\ \A n \in Nodes :
          Cardinality({t \in Threads : fPc[t] = "inside" /\ fNode[t] = n}) <= 1
    /\ \A n \in Nodes : Contiguous(ioLog[n])
    /\ \A t \in Threads :
          fPc[t] = "entered" => (ENABLED Lock(t) <=> mutex[fNode[t]] = "free")

\* a write of t2 done on node n1, then a truncate of t1 half done on n1
\* while t2, back for a read of n1, waits for the mutex
C4_Witness ==
    /\ fPc["t1"] = "inside" /\ fOp["t1"] = "truncate" /\ fNode["t1"] = "n1"
    /\ fLeft["t1"] = 1
    /\ fPc["t2"] = "entered" /\ fOp["t2"] = "read" /\ fNode["t2"] = "n1"
    /\ Len(ioLog["n1"]) = 3
    /\ ~ENABLED Lock("t2")

\* two operations in progress at once, on different nodes
C4_WitnessParallel ==
    /\ fPc["t1"] = "inside" /\ fOp["t1"] = "truncate" /\ fNode["t1"] = "n1"
    /\ fLeft["t1"] = 1
    /\ fPc["t2"] = "inside" /\ fOp["t2"] = "write" /\ fNode["t2"] = "n2"
    /\ fLeft["t2"] = 1

=============================================================================
